---------------------------- MODULE Spec2Model ----------------------------
(***************************************************************************)
(* spotify-controller-bridge (src/server.js): the state reconciliation and *)
(* control-dispatch engine of createServer().                              *)
(*                                                                         *)
(* One action per handler, timer callback or continuation after an await.  *)
(* The upstream provider is an opaque fallible collaborator: every call    *)
(* may succeed or fail, and a playback read may return any snapshot of     *)
(* Snapshots (other clients of the account change playback at any time).   *)
(* A position of p seconds is represented by the integer 1000 * p.         *)
(***************************************************************************)
EXTENDS Integers, Sequences, FiniteSets, TLC

\* ------------------------------------------------------------------ bounds

\* rampVolume() calls accepted in one run
MaxRamps == 2
\* setVolume calls of ramp ticks awaited at the same time
MaxTicksInFlight == 2
\* getPlaybackState calls of pollPlaybackState() awaited at the same time
MaxPollsInFlight == 1
\* the upstream responses scripted for one client request
MaxFetches == 4
\* polls awaiting upstream where their order is what is checked
MaxOverlappingPolls == 2

\* --------------------------------------------------------------- constants

VERSION == "1.0.0-bridge"
DefaultLastNonZeroVolume == 50
MinStepDelayMs == 100
VolumeStep == 10

NULL == [isNull |-> TRUE]
\* the outcome of an awaited call that threw
Rejected == [isRejected |-> TRUE]

Max(a, b) == IF a >= b THEN a ELSE b
Min(a, b) == IF a <= b THEN a ELSE b
Abs(a) == IF a < 0 THEN 0 - a ELSE a
\* Math.max(0, Math.min(100, v))
Clamp100(v) == Max(0, Min(100, v))
\* Math.round(n / d) for d > 0: the nearest integer, a half rounds up
RoundDiv(n, d) == (2 * n + d) \div (2 * d)
\* Math.ceil(n / d) for n >= 0, d > 0
CeilDiv(n, d) == (n + d - 1) \div d

\* -------------------------------------------------------- state normalizer

EmptyPlaybackInfo ==
  [name |-> "", artist |-> "", album |-> "", duration |-> 0,
   playbackPosition |-> 0, trackId |-> "", playerState |-> "Stopped",
   albumArtUrl |-> "", deviceName |-> "", deviceIsActive |-> FALSE]

RECURSIVE JoinNames(_)
\* item.artists.map(a => a.name).join(', ')
JoinNames(artists) ==
  IF Len(artists) = 0 THEN ""
  ELSE IF Len(artists) = 1 THEN artists[1].name
  ELSE artists[1].name \o ", " \o JoinNames(Tail(artists))

\* a normalizer for which every item that is not playing is paused
mapSpotifyToPlaybackInfo_PausedUnlessPlaying(player) ==
  IF player = NULL \/ player.item = NULL THEN EmptyPlaybackInfo
  ELSE
    LET item == player.item
        isTrack == item.type = "track"
        hasArt == isTrack /\ item.album # NULL /\ Len(item.album.images) > 0
                  /\ item.album.images[1].url # ""
    IN [name |-> item.name,
        artist |-> IF isTrack /\ Len(item.artists) > 0
                   THEN JoinNames(item.artists)
                   ELSE IF item.show # NULL THEN item.show.name ELSE "",
        album |-> IF isTrack /\ item.album # NULL THEN item.album.name ELSE "",
        duration |-> item.duration_ms,
        playbackPosition |-> player.progress_ms,
        trackId |-> item.uri,
        playerState |-> IF player.is_playing = TRUE THEN "Playing" ELSE "Paused",
        albumArtUrl |-> IF hasArt THEN item.album.images[1].url ELSE "",
        deviceName |-> IF player.device # NULL THEN player.device.name ELSE "",
        deviceIsActive |-> player.device # NULL /\ player.device.is_active]

mapSpotifyToPlaybackInfo(player) ==
  IF player = NULL \/ player.item = NULL THEN EmptyPlaybackInfo
  ELSE
    LET item == player.item
        isTrack == item.type = "track"
        duration == item.duration_ms
        playbackPosition == player.progress_ms
        hasArt == isTrack /\ item.album # NULL /\ Len(item.album.images) > 0
                  /\ item.album.images[1].url # ""
    IN [name |-> item.name,
        artist |-> IF isTrack /\ Len(item.artists) > 0
                   THEN JoinNames(item.artists)
                   ELSE IF item.show # NULL THEN item.show.name ELSE "",
        album |-> IF isTrack /\ item.album # NULL THEN item.album.name ELSE "",
        duration |-> duration,
        playbackPosition |-> playbackPosition,
        trackId |-> item.uri,
        playerState |-> IF player.is_playing = TRUE THEN "Playing"
                        ELSE IF player.is_playing = FALSE
                                /\ (duration > 0 \/ playbackPosition > 0)
                             THEN "Paused"
                             ELSE "Stopped",
        albumArtUrl |-> IF hasArt THEN item.album.images[1].url ELSE "",
        deviceName |-> IF player.device # NULL THEN player.device.name ELSE "",
        deviceIsActive |-> player.device # NULL /\ player.device.is_active]

\* a control snapshot whose state follows the upstream flag, not playerState
mapSpotifyToState_FromFlag(player) ==
  LET playbackInfo == mapSpotifyToPlaybackInfo(player)
  IN [track_id |-> playbackInfo.trackId,
      volume |-> IF player # NULL /\ player.device # NULL
                 THEN player.device.volume_percent ELSE 0,
      position |-> playbackInfo.playbackPosition,
      state |-> IF player # NULL /\ player.is_playing THEN "playing"
                ELSE IF playbackInfo.playerState = "Paused" THEN "paused"
                ELSE "stopped",
      isRepeating |-> player # NULL /\ player.repeat_state # ""
                      /\ player.repeat_state # "off",
      isShuffling |-> player # NULL /\ player.shuffle_state]

mapSpotifyToState(player) ==
  LET playbackInfo == mapSpotifyToPlaybackInfo(player)
  IN [track_id |-> playbackInfo.trackId,
      volume |-> IF player # NULL /\ player.device # NULL
                 THEN player.device.volume_percent ELSE 0,
      position |-> playbackInfo.playbackPosition,
      state |-> IF playbackInfo.playerState = "Playing" THEN "playing"
                ELSE IF playbackInfo.playerState = "Paused" THEN "paused"
                ELSE "stopped",
      isRepeating |-> player # NULL /\ player.repeat_state # ""
                      /\ player.repeat_state # "off",
      isShuffling |-> player # NULL /\ player.shuffle_state]

buildStateChangePayload(player) ==
  [playbackInfo |-> mapSpotifyToPlaybackInfo(player),
   state |-> mapSpotifyToState(player)]

\* a comparison that looks at playbackInfo alone
payloadEquals_PlaybackInfoOnly(a, b) ==
  IF a = NULL /\ b = NULL THEN TRUE
  ELSE IF a = NULL \/ b = NULL THEN FALSE
  ELSE a.playbackInfo = b.playbackInfo

payloadEquals(a, b) ==
  IF a = NULL /\ b = NULL THEN TRUE
  ELSE IF a = NULL \/ b = NULL THEN FALSE
  ELSE a.playbackInfo = b.playbackInfo /\ a.state = b.state

\* ------------------------------------------------- the upstream's snapshots

Track(ms) ==
  [name |-> "Song", album |-> [name |-> "LP", images |-> <<[url |-> "http://img/1"]>>],
   artists |-> <<[name |-> "A"], [name |-> "B"]>>, type |-> "track",
   duration_ms |-> ms, show |-> NULL, uri |-> "spotify:track:t1"]

Device(vol) == [name |-> "Den", is_active |-> TRUE, volume_percent |-> vol]

Snap(item, playing, vol) ==
  [item |-> item, progress_ms |-> 0, is_playing |-> playing,
   device |-> Device(vol), repeat_state |-> "off", shuffle_state |-> FALSE]

\* what GET /me/player may answer: 204 (null), or a player object
Snapshots == {NULL, Snap(Track(3000), TRUE, 20)}

\* a player object with every field the normalizer reads
Player(item, progress, playing, device, repeat, shuffle) ==
  [item |-> item, progress_ms |-> progress, is_playing |-> playing,
   device |-> device, repeat_state |-> repeat, shuffle_state |-> shuffle]

Episode ==
  [name |-> "Ep", album |-> NULL, artists |-> <<>>, type |-> "episode",
   duration_ms |-> 3000, show |-> [name |-> "Show"], uri |-> "spotify:episode:e1"]

\* answers that differ in one part only: muted (state.volume alone), and
\* paused at 1.5 s on a louder device
StateSnapshots ==
  Snapshots \cup {Snap(Track(3000), TRUE, 0),
                  Player(Track(3000), 1500, FALSE, Device(95), "off", FALSE)}

\* answers over every combination of item, progress, flags and device
RawSnapshots ==
  {NULL} \cup {Player(item, progress, playing, device, repeat, shuffle) :
                 item \in {NULL, Track(0), Track(3000), Episode},
                 progress \in {0, 1500}, playing \in BOOLEAN,
                 device \in {NULL, Device(20)},
                 repeat \in {"off", "context"}, shuffle \in BOOLEAN}

\* ------------------------------------------------------------------- state

VARIABLES
  ALLOW_CONTROL,     \* module constant read from the environment at load
  phase,             \* "created" | "running" | "stopped"
  spotify,           \* TRUE iff the upstream client exists (spotify !== null)
  pollTimer,         \* handle of the poll interval, 0 for null
  pollTimers,        \* poll intervals scheduled and not cleared
  lastStatePayload,  \* NULL or the last broadcast payload
  rampingState,
  rampIntervalId,    \* handle of the ramp interval, 0 for null
  lastNonZeroVolume,
  sessions,          \* one closure per rampVolume() call, in call order
  rampTimers,        \* ramp intervals scheduled and not cleared
  pollsInFlight,     \* pollPlaybackState() calls awaiting getPlaybackState,
                     \* in call order: what started each ("start",
                     \* "interval", "ramp", "state"), and whether a poll
                     \* called after it has broadcast its payload since
  act,               \* the handler, callback or continuation that ran last
  calls,             \* upstream client calls it issued, in order
  emitted,           \* socket.io events it emitted, in order
  reply              \* the HTTP response it produced

config == <<ALLOW_CONTROL>>
core == <<phase, spotify, pollTimer, pollTimers, lastStatePayload, rampingState,
          rampIntervalId, lastNonZeroVolume, sessions, rampTimers,
          pollsInFlight>>
obs == <<act, calls, emitted, reply>>
vars == <<ALLOW_CONTROL, phase, spotify, pollTimer, pollTimers, lastStatePayload,
          rampingState, rampIntervalId, lastNonZeroVolume, sessions, rampTimers,
          pollsInFlight, act, calls, emitted, reply>>


\* a call of an upstream client method: arg is its argument, frac the first
\* decimal digit of a numeric argument that is not whole (0 otherwise)
Call(op, arg) == [op |-> op, arg |-> arg, frac |-> 0]
Event(name, value, to) == [value |-> value, to |-> to, event |-> name]
Reply(status, body) == [status |-> status, body |-> body, json |-> NULL]
JsonReply(status, json) == [status |-> status, body |-> "", json |-> json]
NoReply == Reply(0, "")

\* a closure of rampVolume(): startVolume, target, steps and stepDelayMs are
\* its constants, step its counter; pending counts its ticks suspended in
\* setVolume, lastSet is the argument of its last setVolume call, status is
\* "active" from its start until it completes ("completed"), a later
\* rampVolume() replaces it ("superseded") or stop() runs ("stopped").
\* A closure that no live interval and no suspended tick refers to can never
\* run again: its variables are dropped, its status is kept.
Dropped(sess) ==
  [status |-> sess.status, startVolume |-> 0, target |-> 0, steps |-> 1,
   stepDelayMs |-> 0, step |-> 0, pending |-> 0, lastSet |-> -1]

\* the interval id of a session is its index in sessions
SessionIds == 1..Len(sessions)

\* what ran: session is the ramp session it belongs to, ok whether the
\* awaited upstream call resolved, completed whether a ramp tick took its
\* completion branch, again whether that session had completed before,
\* lastSet and target the session's last setVolume argument and its target,
\* cancelled the sessions it ended before they completed, origin what
\* started the poll that resumed, input what came from outside: the request
\* parameter of a seek, the three of a ramp, the player object an upstream
\* read answered or
\* Rejected, repeated whether a pause came directly after a pause, overtaken
\* whether the poll that resumed was called before one that had broadcast
\* (record constructors list their fields in the order TLC normalises them
\* to, so that a value shared by two workers is never reordered in place)
Act(name, kind, transport) ==
  [name |-> name, target |-> -1, lastSet |-> -1, kind |-> kind,
   transport |-> transport, session |-> 0, ok |-> TRUE, completed |-> FALSE,
   again |-> FALSE, cancelled |-> {}, origin |-> "", input |-> NULL,
   repeated |-> FALSE, overtaken |-> FALSE]

\* a pollPlaybackState() call as it enters pollsInFlight
Poll(origin) == [origin |-> origin, overtaken |-> FALSE]

Init ==
  /\ ALLOW_CONTROL \in BOOLEAN
  /\ phase = "created"
  /\ spotify = FALSE
  /\ pollTimer = 0
  /\ pollTimers = {}
  /\ lastStatePayload = NULL
  /\ rampingState = FALSE
  /\ rampIntervalId = 0
  /\ lastNonZeroVolume = DefaultLastNonZeroVolume
  /\ sessions = <<>>
  /\ rampTimers = {}
  /\ pollsInFlight = <<>>
  /\ act = Act("createServer", "lifecycle", "")
  /\ calls = <<>>
  /\ emitted = <<>>
  /\ reply = NoReply

\* ---------------------------------------------------------------- poll loop

\* the synchronous part of pollPlaybackState(): the calls it issues
pollCalls(client) == IF client THEN <<Call("getPlaybackState", NULL)>> ELSE <<>>

\* the handle of a new interval: one that no live interval has
FreshTimer(live) == CHOOSE id \in 1..(Cardinality(live) + 1) : id \notin live

\* a startPolling() that schedules its interval without clearing the old one
startPolling_NoClear ==
  /\ pollTimers' = pollTimers \cup {FreshTimer(pollTimers)}
  /\ pollTimer' = FreshTimer(pollTimers)
  /\ pollsInFlight' = Append(pollsInFlight, Poll("start"))

\* startPolling(): clears the interval it holds, schedules a new one and
\* polls at once
startPolling ==
  /\ pollTimers' = (pollTimers \ {pollTimer})
                   \cup {FreshTimer(pollTimers \ {pollTimer})}
  /\ pollTimer' = FreshTimer(pollTimers \ {pollTimer})
  /\ pollsInFlight' = Append(pollsInFlight, Poll("start"))

\* start(): spotifyClientOverride or initSpotify(), then startPolling() and
\* its eager poll.  Device resolution (ensureDeviceAndTransfer) returns at
\* once when no target device is configured, which is the case modelled.
Start(hasClient) ==
  /\ phase = "created"
  /\ phase' = "running"
  /\ spotify' = hasClient
  /\ IF hasClient
     THEN startPolling
     ELSE UNCHANGED <<pollTimers, pollTimer, pollsInFlight>>
  /\ act' = Act("start", "lifecycle", "")
  /\ calls' = pollCalls(hasClient)
  /\ emitted' = <<>>
  /\ reply' = NoReply
  /\ UNCHANGED <<ALLOW_CONTROL, lastStatePayload, rampingState, rampIntervalId,
                 lastNonZeroVolume, sessions, rampTimers>>

\* start() called again, while the bridge runs or after stop(): the client
\* is the one of the first call (the override, or the one the same
\* credentials give), and without credentials nothing is started
Restart ==
  /\ phase \in {"running", "stopped"}
  /\ phase' = "running"
  /\ IF spotify
     THEN /\ Len(pollsInFlight) < MaxPollsInFlight
          /\ startPolling
     ELSE UNCHANGED <<pollTimers, pollTimer, pollsInFlight>>
  /\ act' = [Act("start", "lifecycle", "") EXCEPT !.again = TRUE]
  /\ calls' = pollCalls(spotify)
  /\ emitted' = <<>>
  /\ reply' = NoReply
  /\ UNCHANGED <<ALLOW_CONTROL, spotify, lastStatePayload, rampingState,
                 rampIntervalId, lastNonZeroVolume, sessions, rampTimers>>

\* the poll interval fires: pollPlaybackState() up to its await
PollTickWithin(limit) ==
  /\ pollTimers # {}
  /\ spotify => Len(pollsInFlight) < limit
  /\ pollsInFlight' = IF spotify THEN Append(pollsInFlight, Poll("interval"))
                      ELSE pollsInFlight
  /\ act' = Act("pollTick", "timer", "")
  /\ calls' = pollCalls(spotify)
  /\ emitted' = <<>>
  /\ reply' = NoReply
  /\ UNCHANGED <<ALLOW_CONTROL, phase, spotify, pollTimer, pollTimers,
                 lastStatePayload, rampingState, rampIntervalId,
                 lastNonZeroVolume, sessions, rampTimers>>

PollTick == PollTickWithin(MaxPollsInFlight)

\* a poll whose failed read forgets the last broadcast payload
PollResolve_FailureForgets(i, ok, player) ==
  /\ i \in 1..Len(pollsInFlight)
  /\ pollsInFlight' = SubSeq(pollsInFlight, 1, i - 1)
                      \o SubSeq(pollsInFlight, i + 1, Len(pollsInFlight))
  /\ LET payload == buildStateChangePayload(player)
     IN IF ok
        THEN /\ lastNonZeroVolume' = IF payload.state.volume > 0
                                     THEN payload.state.volume
                                     ELSE lastNonZeroVolume
             /\ IF ~payloadEquals(payload, lastStatePayload)
                THEN /\ lastStatePayload' = payload
                     /\ emitted' = <<Event("state_change", payload, "all")>>
                ELSE /\ UNCHANGED lastStatePayload
                     /\ emitted' = <<>>
        ELSE /\ lastStatePayload' = NULL
             /\ UNCHANGED lastNonZeroVolume
             /\ emitted' = <<>>
  /\ act' = [Act("pollResolve", "resume", "") EXCEPT
               !.ok = ok, !.origin = pollsInFlight[i].origin,
               !.overtaken = pollsInFlight[i].overtaken,
               !.input = IF ok THEN player ELSE Rejected]
  /\ calls' = <<>>
  /\ reply' = NoReply
  /\ UNCHANGED <<ALLOW_CONTROL, phase, spotify, pollTimer, pollTimers,
                 rampingState, rampIntervalId, sessions, rampTimers>>

\* a sequence without its i-th element
Without(seq, i) == SubSeq(seq, 1, i - 1) \o SubSeq(seq, i + 1, Len(seq))

\* the polls in flight once the i-th has broadcast: those called before it
\* are overtaken
Overtake(polls, i) ==
  [j \in 1..Len(polls) |-> IF j < i THEN [polls[j] EXCEPT !.overtaken = TRUE]
                           ELSE polls[j]]

\* pollPlaybackState() after its await: the getPlaybackState call of the
\* i-th poll in flight resolved with player, or rejected
PollResolve(i, ok, player) ==
  /\ i \in 1..Len(pollsInFlight)
  /\ pollsInFlight' =
       IF ok /\ ~payloadEquals(buildStateChangePayload(player), lastStatePayload)
       THEN Without(Overtake(pollsInFlight, i), i)
       ELSE Without(pollsInFlight, i)
  /\ LET payload == buildStateChangePayload(player)
     IN IF ok
        THEN /\ lastNonZeroVolume' = IF payload.state.volume > 0
                                     THEN payload.state.volume
                                     ELSE lastNonZeroVolume
             /\ IF ~payloadEquals(payload, lastStatePayload)
                THEN /\ lastStatePayload' = payload
                     /\ emitted' = <<Event("state_change", payload, "all")>>
                ELSE /\ UNCHANGED lastStatePayload
                     /\ emitted' = <<>>
        ELSE /\ UNCHANGED <<lastNonZeroVolume, lastStatePayload>>
             /\ emitted' = <<>>
  /\ act' = [Act("pollResolve", "resume", "") EXCEPT
               !.ok = ok, !.origin = pollsInFlight[i].origin,
               !.overtaken = pollsInFlight[i].overtaken,
               !.input = IF ok THEN player ELSE Rejected]
  /\ calls' = <<>>
  /\ reply' = NoReply
  /\ UNCHANGED <<ALLOW_CONTROL, phase, spotify, pollTimer, pollTimers,
                 rampingState, rampIntervalId, sessions, rampTimers>>

\* ------------------------------------------------- volume ramp controller

\* Math.max(0, Math.min(100, Math.round(Number(targetVolume) || 0)))
RampTarget(targetVolume) == Clamp100(targetVolume)

\* Math.max(1, Math.round(Number(changePercent) || 1))
RampChangePerStep(changePercent) ==
  Max(1, IF changePercent = 0 THEN 1 ELSE changePercent)

\* Math.ceil(Math.abs(target - startVolume) / changePerStep) || 1
RampSteps(startVolume, target, changePerStep) ==
  LET n == CeilDiv(Abs(target - startVolume), changePerStep)
  IN IF n = 0 THEN 1 ELSE n

\* Math.max(100, Math.floor((Number(rampTimeSeconds) || 1) * 1000 / steps))
RampStepDelayMs(rampTimeSeconds, steps) ==
  Max(MinStepDelayMs,
      ((IF rampTimeSeconds = 0 THEN 1 ELSE rampTimeSeconds) * 1000) \div steps)

\* a tick volume interpolated from the volume broadcast last, not from the
\* closure's startVolume
TickVolume_FromBroadcast(sess) ==
  LET from == IF lastStatePayload # NULL THEN lastStatePayload.state.volume ELSE 0
  IN Clamp100(RoundDiv(from * sess.steps + (sess.target - from) * sess.step,
                       sess.steps))

\* the volume a tick computes from the closure's step counter
TickVolume(sess) ==
  Clamp100(RoundDiv(sess.startVolume * sess.steps
                    + (sess.target - sess.startVolume) * sess.step, sess.steps))

\* startVolume as rampVolume() reads it from the last broadcast payload
RampStartVolume == IF lastStatePayload # NULL THEN lastStatePayload.state.volume ELSE 0

Collect(ss, timers) ==
  [i \in 1..Len(ss) |-> IF i \notin timers /\ ss[i].pending = 0
                        THEN Dropped(ss[i]) ELSE ss[i]]

RECURSIVE SumPending(_, _)
SumPending(ss, n) == IF n = 0 THEN 0 ELSE ss[n].pending + SumPending(ss, n - 1)

\* ramp ticks suspended in their awaited setVolume call
TicksInFlight == SumPending(sessions, Len(sessions))

\* a tick after its await (or at once, when it awaits nothing): base is the
\* session's closure as the tick finds it
TickContinue(s, base, a) ==
  IF base.step >= base.steps
  THEN /\ rampIntervalId' = 0
       /\ rampingState' = FALSE
       /\ sessions' = Collect([sessions EXCEPT ![s] =
            [base EXCEPT !.status = IF base.status = "active" THEN "completed"
                                    ELSE base.status]], rampTimers)
       /\ pollsInFlight' = IF spotify THEN Append(pollsInFlight, Poll("ramp"))
                           ELSE pollsInFlight
       /\ act' = [a EXCEPT !.session = s, !.completed = TRUE,
                            !.again = base.status = "completed",
                            !.lastSet = base.lastSet, !.target = base.target]
       /\ calls' = pollCalls(spotify)
       /\ emitted' = <<Event("ramping_state", FALSE, "all")>>
  ELSE /\ sessions' = Collect([sessions EXCEPT ![s] =
                                  [base EXCEPT !.step = base.step + 1]], rampTimers)
       /\ act' = [a EXCEPT !.session = s]
       /\ calls' = <<>>
       /\ emitted' = <<>>
       /\ UNCHANGED <<rampIntervalId, rampingState, pollsInFlight>>

\* rampVolume(targetVolume, changePercent, rampTimeSeconds, done), with the
\* first tick() it runs before returning
rampVolume(targetVolume, changePercent, rampTimeSeconds, a) ==
  LET s == Len(sessions) + 1
      startVolume == RampStartVolume
      target == RampTarget(targetVolume)
      steps == RampSteps(startVolume, target, RampChangePerStep(changePercent))
      fresh == [status |-> "active", startVolume |-> startVolume,
                target |-> target, steps |-> steps,
                stepDelayMs |-> RampStepDelayMs(rampTimeSeconds, steps),
                step |-> 0, pending |-> 0, lastSet |-> -1]
      awaits == spotify /\ ALLOW_CONTROL
      first == IF awaits
               THEN [fresh EXCEPT !.pending = 1, !.lastSet = TickVolume(fresh)]
               ELSE [fresh EXCEPT !.step = 1]
      live == {i \in SessionIds : sessions[i].status = "active"}
  IN /\ Len(sessions) < MaxRamps
     /\ awaits => TicksInFlight < MaxTicksInFlight
     /\ rampTimers' = (rampTimers \ {rampIntervalId}) \cup {s}
     /\ rampIntervalId' = s
     /\ rampingState' = TRUE
     /\ sessions' = Collect(Append([i \in SessionIds |->
                                      IF i \in live
                                      THEN [sessions[i] EXCEPT !.status = "superseded"]
                                      ELSE sessions[i]], first),
                             (rampTimers \ {rampIntervalId}) \cup {s})
     /\ act' = [a EXCEPT !.session = s, !.cancelled = live]
     /\ calls' = IF awaits THEN <<Call("setVolume", TickVolume(fresh))>> ELSE <<>>
     /\ emitted' = <<Event("ramping_state", TRUE, "all")>>
     /\ UNCHANGED <<ALLOW_CONTROL, phase, spotify, pollTimer, pollTimers,
                    lastStatePayload, lastNonZeroVolume, pollsInFlight>>

\* the ramp interval of session s fires: tick() up to its await
RampTick(s) ==
  /\ s \in rampTimers
  /\ LET sess == sessions[s]
     IN IF spotify /\ ALLOW_CONTROL
        THEN /\ TicksInFlight < MaxTicksInFlight
             /\ sessions' = [sessions EXCEPT ![s] =
                  [sess EXCEPT !.pending = sess.pending + 1,
                               !.lastSet = TickVolume(sess)]]
             /\ act' = [Act("rampTick", "timer", "") EXCEPT !.session = s]
             /\ calls' = <<Call("setVolume", TickVolume(sess))>>
             /\ emitted' = <<>>
             /\ UNCHANGED <<rampIntervalId, rampingState, pollsInFlight>>
        ELSE /\ spotify => Len(pollsInFlight) < MaxPollsInFlight
             /\ TickContinue(s, sess, Act("rampTick", "timer", ""))
  /\ reply' = NoReply
  /\ UNCHANGED <<ALLOW_CONTROL, phase, spotify, pollTimer, pollTimers,
                 lastStatePayload, lastNonZeroVolume, rampTimers>>

\* a tick that gives up when its setVolume was rejected, leaving the step
\* to the next tick
TickResume_FailureRetries(s, ok) ==
  /\ s \in SessionIds
  /\ sessions[s].pending > 0
  /\ spotify => Len(pollsInFlight) < MaxPollsInFlight
  /\ IF ok
     THEN TickContinue(s, [sessions[s] EXCEPT !.pending = sessions[s].pending - 1],
                       [Act("tickResume", "resume", "") EXCEPT !.ok = ok])
     ELSE /\ sessions' = Collect([sessions EXCEPT ![s].pending = @ - 1], rampTimers)
          /\ act' = [Act("tickResume", "resume", "") EXCEPT
                       !.session = s, !.ok = ok]
          /\ calls' = <<>>
          /\ emitted' = <<>>
          /\ UNCHANGED <<rampIntervalId, rampingState, pollsInFlight>>
  /\ reply' = NoReply
  /\ UNCHANGED <<ALLOW_CONTROL, phase, spotify, pollTimer, pollTimers,
                 lastStatePayload, lastNonZeroVolume, rampTimers>>

\* a tick of session s after its await: setVolume resolved, or rejected and
\* was logged
TickResume(s, ok) ==
  /\ s \in SessionIds
  /\ sessions[s].pending > 0
  /\ spotify => Len(pollsInFlight) < MaxPollsInFlight
  /\ TickContinue(s, [sessions[s] EXCEPT !.pending = sessions[s].pending - 1],
                  [Act("tickResume", "resume", "") EXCEPT !.ok = ok])
  /\ reply' = NoReply
  /\ UNCHANGED <<ALLOW_CONTROL, phase, spotify, pollTimer, pollTimers,
                 lastStatePayload, lastNonZeroVolume, rampTimers>>

\* ------------------------------------------------------------------- stop()

stopPolling ==
  /\ pollTimers' = pollTimers \ {pollTimer}
  /\ pollTimer' = 0

\* a stop() that also drops the retained payload
stop_ForgetsPayload ==
  /\ phase = "running"
  /\ phase' = "stopped"
  /\ stopPolling
  /\ rampTimers' = rampTimers \ {rampIntervalId}
  /\ rampIntervalId' = 0
  /\ rampingState' = FALSE
  /\ LET live == {i \in SessionIds : sessions[i].status = "active"}
     IN /\ sessions' = Collect([i \in SessionIds |->
                                  IF i \in live
                                  THEN [sessions[i] EXCEPT !.status = "stopped"]
                                  ELSE sessions[i]],
                                 rampTimers \ {rampIntervalId})
        /\ act' = [Act("stop", "lifecycle", "") EXCEPT !.cancelled = live]
  /\ calls' = <<>>
  /\ emitted' = <<>>
  /\ reply' = NoReply
  /\ lastStatePayload' = NULL
  /\ UNCHANGED <<ALLOW_CONTROL, spotify, lastNonZeroVolume, pollsInFlight>>

stop ==
  /\ phase = "running"
  /\ phase' = "stopped"
  /\ stopPolling
  /\ rampTimers' = rampTimers \ {rampIntervalId}
  /\ rampIntervalId' = 0
  /\ rampingState' = FALSE
  /\ LET live == {i \in SessionIds : sessions[i].status = "active"}
     IN /\ sessions' = Collect([i \in SessionIds |->
                                  IF i \in live
                                  THEN [sessions[i] EXCEPT !.status = "stopped"]
                                  ELSE sessions[i]],
                                 rampTimers \ {rampIntervalId})
        /\ act' = [Act("stop", "lifecycle", "") EXCEPT !.cancelled = live]
  /\ calls' = <<>>
  /\ emitted' = <<>>
  /\ reply' = NoReply
  /\ UNCHANGED <<ALLOW_CONTROL, spotify, lastStatePayload, lastNonZeroVolume,
                 pollsInFlight>>

\* ------------------------------------------------------- control dispatcher

\* command arguments tried
VolumeArgs == {0, 20, 150}
SecondsArgs == {-5, 5}
TrackArgs == {"t1", "spotify:track:t2"}
ContextArgs == {"c1", "spotify:album:a1"}
RampArgs == {<<120, 50, 3>>}

\* a handler that re-broadcasts the retained payload after its upstream calls
Handled_Rebroadcasts(a, cs, r) ==
  /\ phase = "running"
  /\ act' = a
  /\ calls' = cs
  /\ emitted' = IF cs # <<>> /\ lastStatePayload # NULL
                THEN <<Event("state_change", lastStatePayload, "all")>>
                ELSE <<>>
  /\ reply' = r
  /\ UNCHANGED <<ALLOW_CONTROL, phase, spotify, pollTimer, pollTimers,
                 lastStatePayload, rampingState, rampIntervalId,
                 lastNonZeroVolume, sessions, rampTimers, pollsInFlight>>

\* a handler that changes no state of the bridge and issues the calls cs
Handled(a, cs, r) ==
  /\ phase = "running"
  /\ act' = a
  /\ calls' = cs
  /\ emitted' = <<>>
  /\ reply' = r
  /\ UNCHANGED <<ALLOW_CONTROL, phase, spotify, pollTimer, pollTimers,
                 lastStatePayload, rampingState, rampIntervalId,
                 lastNonZeroVolume, sessions, rampTimers, pollsInFlight>>

ControlDisabled == Reply(403, "Control disabled")
NotConfigured == Reply(503, "Spotify not configured")
RampInProgress == Reply(409, "Volume ramping in progress")
\* res.status(ALLOW_CONTROL ? 503 : 403).send(...)
NotAllowed == IF ALLOW_CONTROL THEN NotConfigured ELSE ControlDisabled

\* restControl without its second line: fn() runs whether or not the client
\* exists
restControl_NoClientCheck(a, c) ==
  IF ~ALLOW_CONTROL THEN Handled(a, <<>>, ControlDisabled)
  ELSE \E ok \in BOOLEAN :
         Handled([a EXCEPT !.ok = ok], <<c>>,
                 IF ok THEN Reply(200, "OK") ELSE Reply(500, "upstream error"))

\* restControl(req, res, fn): fn() issues the call c
restControl(a, c) ==
  IF ~ALLOW_CONTROL THEN Handled(a, <<>>, ControlDisabled)
  ELSE IF ~spotify THEN Handled(a, <<>>, NotConfigured)
  ELSE \E ok \in BOOLEAN :
         Handled([a EXCEPT !.ok = ok], <<c>>,
                 IF ok THEN Reply(200, "OK") ELSE Reply(500, "upstream error"))

\* a base volume taken from lastNonZeroVolume instead of the payload
LastVolume_NonZero == lastNonZeroVolume

\* the last broadcast volume, 50 when there is none (volumeUp, volumeDown)
LastVolume == IF lastStatePayload # NULL THEN lastStatePayload.state.volume ELSE 50
\* the last broadcast position, 0 when there is none
LastPosition == IF lastStatePayload # NULL THEN lastStatePayload.state.position ELSE 0

Rest(name) == Act(name, "command", "rest")

RestPlay == restControl(Rest("play"), Call("play", NULL))
\* a pause handler that drops a pause coming directly after a pause
RestPause_Debounced ==
  IF act.name = "pause"
  THEN Handled([Rest("pause") EXCEPT !.repeated = TRUE], <<>>, Reply(200, "OK"))
  ELSE restControl(Rest("pause"), Call("pause", NULL))

RestPause ==
  restControl([Rest("pause") EXCEPT !.repeated = act.name = "pause"],
              Call("pause", NULL))
RestNext == restControl(Rest("next"), Call("next", NULL))
RestPrevious == restControl(Rest("previous"), Call("previous", NULL))
RestPlayTrack(track) == restControl(Rest("playTrack"), Call("playTrack", <<track>>))
RestPlayTrackInContext(track, context) ==
  restControl(Rest("playTrackInContext"), Call("playTrackInContext", <<track, context>>))
RestRepeatOn == restControl(Rest("repeatOn"), Call("setRepeat", "context"))
RestRepeatOff == restControl(Rest("repeatOff"), Call("setRepeat", "off"))
RestShuffleOn == restControl(Rest("shuffleOn"), Call("setShuffle", TRUE))
RestShuffleOff == restControl(Rest("shuffleOff"), Call("setShuffle", FALSE))

RestSetPlayerPosition(seconds) ==
  restControl(Rest("setPlayerPosition"), Call("seek", Max(0, seconds) * 1000))

RestMovePlayerPosition(seconds) ==
  IF ~ALLOW_CONTROL \/ ~spotify
  THEN Handled(Rest("movePlayerPosition"), <<>>, NotAllowed)
  ELSE restControl([Rest("movePlayerPosition") EXCEPT !.input = seconds],
                   Call("seek", Max(0, LastPosition + seconds * 1000)))

RestVolumeUp ==
  IF ~ALLOW_CONTROL \/ ~spotify THEN Handled(Rest("volumeUp"), <<>>, NotAllowed)
  ELSE IF rampingState THEN Handled(Rest("volumeUp"), <<>>, RampInProgress)
  ELSE restControl(Rest("volumeUp"),
                   Call("setVolume", Min(100, LastVolume + VolumeStep)))

RestVolumeDown ==
  IF ~ALLOW_CONTROL \/ ~spotify THEN Handled(Rest("volumeDown"), <<>>, NotAllowed)
  ELSE IF rampingState THEN Handled(Rest("volumeDown"), <<>>, RampInProgress)
  ELSE restControl(Rest("volumeDown"),
                   Call("setVolume", Max(0, LastVolume - VolumeStep)))

RestSetVolume(volume) ==
  IF rampingState THEN Handled(Rest("setVolume"), <<>>, RampInProgress)
  ELSE restControl(Rest("setVolume"), Call("setVolume", Clamp100(volume)))

RestMute ==
  IF rampingState THEN Handled(Rest("mute"), <<>>, RampInProgress)
  ELSE restControl(Rest("mute"), Call("setVolume", 0))

\* an unmute that restores the last broadcast volume
RestUnmute_FromPayload ==
  IF rampingState THEN Handled(Rest("unmute"), <<>>, RampInProgress)
  ELSE restControl(Rest("unmute"), Call("setVolume", LastVolume))

RestUnmute ==
  IF rampingState THEN Handled(Rest("unmute"), <<>>, RampInProgress)
  ELSE restControl(Rest("unmute"),
                   Call("setVolume", IF lastNonZeroVolume = 0
                                     THEN DefaultLastNonZeroVolume
                                     ELSE lastNonZeroVolume))

RestRampVolume(volume, changePercent, rampTime) ==
  IF ~ALLOW_CONTROL \/ ~spotify THEN Handled(Rest("rampVolume"), <<>>, NotAllowed)
  ELSE /\ phase = "running"
       /\ rampVolume(volume, changePercent, IF rampTime = 0 THEN 1 ELSE rampTime,
                     [Rest("rampVolume") EXCEPT
                        !.input = <<volume, changePercent, rampTime>>])
       /\ reply' = Reply(200, "OK")

\* a toggle that reads upstream but decides from the retained payload
toggleCalls_FromCache(readOk, player) ==
  <<Call("getPlaybackState", NULL)>>
  \o (IF ~readOk THEN <<>>
      ELSE IF lastStatePayload # NULL /\ lastStatePayload.state.state = "playing"
           THEN <<Call("pause", NULL)>>
      ELSE <<Call("play", NULL)>>)

\* the calls of a playToggle handler: the fresh read, then, unless the read
\* failed, pause when it reports playing and play otherwise
toggleCalls(readOk, player) ==
  <<Call("getPlaybackState", NULL)>>
  \o (IF ~readOk THEN <<>>
      ELSE IF player # NULL /\ player.is_playing THEN <<Call("pause", NULL)>>
      ELSE <<Call("play", NULL)>>)

\* GET /playToggle.  The handler reads and writes no state of the bridge,
\* so its two awaits are taken in one step: the read answers player or
\* fails, then pause or play resolves (ok) or fails
RestPlayToggle(readOk, player, ok) ==
  IF ~ALLOW_CONTROL \/ ~spotify THEN Handled(Rest("playToggle"), <<>>, NotAllowed)
  ELSE Handled([Rest("playToggle") EXCEPT
                  !.ok = readOk /\ ok, !.input = IF readOk THEN player ELSE Rejected],
               toggleCalls(readOk, player),
               IF readOk /\ ok THEN Reply(200, "OK") ELSE Reply(500, "upstream error"))

\* ------------------------------------------------- socket.io control events

Sock(name) == Act(name, "command", "socket")

\* a socket handler that tests only the client, not ALLOW_CONTROL
socketControl_IgnoresPolicy(a, c) ==
  IF spotify
  THEN Handled(a, <<c>>, NoReply)
  ELSE Handled(a, <<>>, NoReply)

\* ALLOW_CONTROL && spotify && spotify.<call>().catch(log): a rejected call
\* is logged and leaves no trace in the bridge
socketControl(a, c) ==
  IF ALLOW_CONTROL /\ spotify
  THEN Handled(a, <<c>>, NoReply)
  ELSE Handled(a, <<>>, NoReply)

\* the volume events: nothing while rampingState
socketVolume(a, c) ==
  IF rampingState \/ ~ALLOW_CONTROL \/ ~spotify
  THEN Handled(a, <<>>, NoReply)
  ELSE Handled(a, <<c>>, NoReply)

SocketPlay == socketControl(Sock("play"), Call("play", NULL))
SocketPause ==
  socketControl([Sock("pause") EXCEPT !.repeated = act.name = "pause"],
                Call("pause", NULL))
SocketNext == socketControl(Sock("next"), Call("next", NULL))
SocketPrevious == socketControl(Sock("previous"), Call("previous", NULL))
SocketPlayTrack(track) == socketControl(Sock("playTrack"), Call("playTrack", <<track>>))
SocketPlayTrackInContext(track, context) ==
  socketControl(Sock("playTrackInContext"), Call("playTrackInContext", <<track, context>>))
SocketRepeatOn == socketControl(Sock("repeatOn"), Call("setRepeat", "context"))
SocketRepeatOff == socketControl(Sock("repeatOff"), Call("setRepeat", "off"))
SocketShuffleOn == socketControl(Sock("shuffleOn"), Call("setShuffle", TRUE))
SocketShuffleOff == socketControl(Sock("shuffleOff"), Call("setShuffle", FALSE))

SocketSetPlayerPosition(seconds) ==
  socketControl(Sock("setPlayerPosition"), Call("seek", Max(0, seconds) * 1000))

SocketMovePlayerPosition(seconds) ==
  socketControl([Sock("movePlayerPosition") EXCEPT !.input = seconds],
                Call("seek", Max(0, LastPosition + seconds * 1000)))

SocketVolumeUp ==
  socketVolume(Sock("volumeUp"), Call("setVolume", Min(100, LastVolume + VolumeStep)))

SocketVolumeDown ==
  socketVolume(Sock("volumeDown"), Call("setVolume", Max(0, LastVolume - VolumeStep)))

SocketSetVolume(volume) ==
  socketVolume(Sock("setVolume"), Call("setVolume", Clamp100(volume)))

\* A command argument as it arrives from a route parameter or a socket
\* event: Number(x) is NaN, or a number with one decimal digit. Numbers that
\* may be fractional are held in tenths.
Tenths == 10
NaN == [nan |-> TRUE, tenths |-> 0]
Num(tenths) == [nan |-> FALSE, tenths |-> tenths]

\* Number(x) || 0, in tenths
NumberOrZero(x) == IF x.nan THEN 0 ELSE x.tenths

\* Math.round of a number in tenths: the nearest integer, a half rounds up
MathRound(tenths) == ((tenths + 5) \div Tenths) * Tenths

\* the whole number of a value in tenths that has no fraction
Whole(tenths) == tenths \div Tenths

\* a call whose numeric argument, in tenths, was not rounded
CallNumber(op, tenths) ==
  [Call(op, tenths \div Tenths) EXCEPT !.frac = tenths % Tenths]

\* GET /setVolume/:volume with any parameter: the handler rounds
\* Number(req.params.volume) || 0 before it clamps
RestSetVolumeRaw(volume) == RestSetVolume(Whole(MathRound(NumberOrZero(volume))))

\* socket 'setVolume' with any argument: the handler clamps
\* Number(volume0to100) || 0 and does not round
SocketSetVolumeRaw(volume0to100) ==
  socketVolume([Sock("setVolume") EXCEPT !.input = volume0to100],
               CallNumber("setVolume",
                          Max(0, Min(100 * Tenths, NumberOrZero(volume0to100)))))

SocketMute == socketVolume(Sock("mute"), Call("setVolume", 0))

SocketUnmute ==
  socketVolume(Sock("unmute"),
               Call("setVolume", IF lastNonZeroVolume = 0
                                 THEN DefaultLastNonZeroVolume
                                 ELSE lastNonZeroVolume))

SocketRampVolume(targetVolume, changePercent, rampTimeSeconds) ==
  IF ~ALLOW_CONTROL \/ ~spotify THEN Handled(Sock("rampVolume"), <<>>, NoReply)
  ELSE /\ phase = "running"
       /\ rampVolume(targetVolume, changePercent, rampTimeSeconds,
                     [Sock("rampVolume") EXCEPT
                        !.input = <<targetVolume, changePercent, rampTimeSeconds>>])
       /\ reply' = NoReply

\* rampVolume with any target: rampVolume() rounds Number(targetVolume) || 0
\* before it clamps
RestRampVolumeRaw(volume, changePercent, rampTime) ==
  RestRampVolume(Whole(MathRound(NumberOrZero(volume))), changePercent, rampTime)

SocketRampVolumeRaw(targetVolume, changePercent, rampTimeSeconds) ==
  SocketRampVolume(Whole(MathRound(NumberOrZero(targetVolume))), changePercent,
                   rampTimeSeconds)

\* the playToggle event: as GET /playToggle, failures are logged
SocketPlayToggle(readOk, player) ==
  IF ~ALLOW_CONTROL \/ ~spotify THEN Handled(Sock("playToggle"), <<>>, NoReply)
  ELSE Handled([Sock("playToggle") EXCEPT
                  !.ok = readOk, !.input = IF readOk THEN player ELSE Rejected],
               toggleCalls(readOk, player), NoReply)

\* ------------------------------------------------------------------ queries

Query(name, transport) == Act(name, "query", transport)

RestVersion == Handled(Query("version", "rest"), <<>>, Reply(200, VERSION))

RestControlStatus ==
  Handled(Query("control_status", "rest"),
          <<>>, Reply(200, IF ALLOW_CONTROL THEN "true" ELSE "false"))

\* a GET /state answered from the retained payload when there is one
RestState_FromCache(ok, player) ==
  IF ~spotify
  THEN Handled(Query("state", "rest"), <<>>,
               JsonReply(200, [playbackInfo |-> mapSpotifyToPlaybackInfo(NULL),
                               state |-> mapSpotifyToState(NULL)]))
  ELSE Handled([Query("state", "rest") EXCEPT
                  !.ok = ok, !.input = IF ok THEN player ELSE Rejected],
               <<Call("getPlaybackState", NULL)>>,
               IF ~ok THEN JsonReply(500, [error |-> "upstream error"])
               ELSE IF lastStatePayload # NULL THEN JsonReply(200, lastStatePayload)
               ELSE JsonReply(200, buildStateChangePayload(player)))

\* GET /state: a fresh upstream read when the client exists
RestState(ok, player) ==
  IF ~spotify
  THEN Handled(Query("state", "rest"), <<>>,
               JsonReply(200, [playbackInfo |-> mapSpotifyToPlaybackInfo(NULL),
                               state |-> mapSpotifyToState(NULL)]))
  ELSE Handled([Query("state", "rest") EXCEPT
                  !.ok = ok, !.input = IF ok THEN player ELSE Rejected],
               <<Call("getPlaybackState", NULL)>>,
               IF ok THEN JsonReply(200, buildStateChangePayload(player))
               ELSE JsonReply(500, [error |-> "upstream error"]))

\* the events a handler sends to the one socket it serves
ToSocket(a, es) ==
  /\ phase = "running"
  /\ act' = a
  /\ calls' = <<>>
  /\ emitted' = es
  /\ reply' = NoReply
  /\ UNCHANGED <<ALLOW_CONTROL, phase, spotify, pollTimer, pollTimers,
                 lastStatePayload, rampingState, rampIntervalId,
                 lastNonZeroVolume, sessions, rampTimers, pollsInFlight>>

\* a connection handler that does not replay the retained payload
SocketConnect_NoPayload ==
  ToSocket(Act("connection", "connect", "socket"),
           <<Event("version", VERSION, "socket"),
             Event("control_status", ALLOW_CONTROL, "socket"),
             Event("ramping_state", rampingState, "socket")>>)

\* io.on('connection'): stop() closes the HTTP listener and not io, so a
\* client on a connection that is still open can subscribe after stop()
SocketConnect ==
  /\ phase \in {"running", "stopped"}
  /\ act' = Act("connection", "connect", "socket")
  /\ calls' = <<>>
  /\ emitted' = <<Event("version", VERSION, "socket"),
                  Event("control_status", ALLOW_CONTROL, "socket")>>
                \o (IF lastStatePayload # NULL
                    THEN <<Event("state_change", lastStatePayload, "socket")>>
                    ELSE <<>>)
                \o <<Event("ramping_state", rampingState, "socket")>>
  /\ reply' = NoReply
  /\ UNCHANGED <<ALLOW_CONTROL, phase, spotify, pollTimer, pollTimers,
                 lastStatePayload, rampingState, rampIntervalId,
                 lastNonZeroVolume, sessions, rampTimers, pollsInFlight>>

SocketVersion ==
  ToSocket(Query("version", "socket"), <<Event("version", VERSION, "socket")>>)

SocketControlStatus ==
  ToSocket(Query("control_status", "socket"),
           <<Event("control_status", ALLOW_CONTROL, "socket")>>)

\* the state event: the retained payload, or a poll when there is none
SocketState ==
  IF lastStatePayload # NULL
  THEN ToSocket(Query("state", "socket"),
                <<Event("state_change", lastStatePayload, "socket")>>)
  ELSE /\ phase = "running"
       /\ spotify => Len(pollsInFlight) < MaxPollsInFlight
       /\ pollsInFlight' = IF spotify THEN Append(pollsInFlight, Poll("state"))
                           ELSE pollsInFlight
       /\ act' = Query("state", "socket")
       /\ calls' = pollCalls(spotify)
       /\ emitted' = <<>>
       /\ reply' = NoReply
       /\ UNCHANGED <<ALLOW_CONTROL, phase, spotify, pollTimer, pollTimers,
                      lastStatePayload, rampingState, rampIntervalId,
                      lastNonZeroVolume, sessions, rampTimers>>

\* ------------------------------------------------------------ specification

Lifecycle ==
  \/ \E hasClient \in BOOLEAN : Start(hasClient)
  \/ stop

RampCommands ==
  \/ \E r \in RampArgs : RestRampVolume(r[1], r[2], r[3])
  \/ \E r \in RampArgs : SocketRampVolume(r[1], r[2], r[3])

VolumeCommands ==
  \/ RestVolumeUp \/ RestVolumeDown
  \/ \E v \in VolumeArgs : RestSetVolume(v)
  \/ RestMute \/ RestUnmute
  \/ SocketVolumeUp \/ SocketVolumeDown
  \/ \E v \in VolumeArgs : SocketSetVolume(v)
  \/ SocketMute \/ SocketUnmute

PlaybackCommands ==
  \/ RestPlay \/ RestPause \/ RestNext \/ RestPrevious
  \/ \E t \in TrackArgs : RestPlayTrack(t)
  \/ \E t \in TrackArgs, c \in ContextArgs : RestPlayTrackInContext(t, c)
  \/ RestRepeatOn \/ RestRepeatOff \/ RestShuffleOn \/ RestShuffleOff
  \/ \E sec \in SecondsArgs : RestSetPlayerPosition(sec)
  \/ \E sec \in SecondsArgs : RestMovePlayerPosition(sec)
  \/ \E readOk \in BOOLEAN, player \in Snapshots, ok \in BOOLEAN :
       RestPlayToggle(readOk, player, ok)
  \/ SocketPlay \/ SocketPause \/ SocketNext \/ SocketPrevious
  \/ \E t \in TrackArgs : SocketPlayTrack(t)
  \/ \E t \in TrackArgs, c \in ContextArgs : SocketPlayTrackInContext(t, c)
  \/ SocketRepeatOn \/ SocketRepeatOff \/ SocketShuffleOn \/ SocketShuffleOff
  \/ \E sec \in SecondsArgs : SocketSetPlayerPosition(sec)
  \/ \E sec \in SecondsArgs : SocketMovePlayerPosition(sec)
  \/ \E readOk \in BOOLEAN, player \in Snapshots : SocketPlayToggle(readOk, player)

Queries ==
  \/ RestVersion \/ RestControlStatus
  \/ \E ok \in BOOLEAN, player \in Snapshots : RestState(ok, player)
  \/ SocketConnect \/ SocketVersion \/ SocketControlStatus \/ SocketState

PollLoop ==
  \/ PollTick
  \/ \E i \in 1..Len(pollsInFlight), ok \in BOOLEAN, player \in Snapshots :
       PollResolve(i, ok, player)

RampTimer ==
  \/ \E s \in rampTimers : RampTick(s)
  \/ \E s \in SessionIds, ok \in BOOLEAN : TickResume(s, ok)

\* the whole bridge
Next ==
  \/ Lifecycle
  \/ Restart
  \/ RampCommands
  \/ VolumeCommands
  \/ PlaybackCommands
  \/ Queries
  \/ PollLoop
  \/ RampTimer

Spec == Init /\ [][Next]_vars

\* The handlers of VolumeCommands, PlaybackCommands and Queries change no
\* variable but act, calls, emitted and reply (SocketState also starts a
\* poll), so the ramp controller, the poll loop and the lifecycle behave the
\* same with or without them.

\* the ramp controller with the poll loop and the lifecycle
NextRamp ==
  \/ Lifecycle
  \/ RampCommands
  \/ PollLoop
  \/ RampTimer

SpecRamp == Init /\ [][NextRamp]_vars

\* the same with its timers and promises at work: every live ramp interval
\* keeps firing, every setVolume call and every getPlaybackState call is
\* settled, resolved or rejected
SpecRampFair ==
  /\ Init /\ [][NextRamp]_vars
  /\ \A s \in 1..MaxRamps : SF_vars(RampTick(s))
  /\ \A s \in 1..MaxRamps : SF_vars(\E ok \in BOOLEAN : TickResume(s, ok))
  /\ WF_vars(\E i \in 1..Len(pollsInFlight), ok \in BOOLEAN, player \in Snapshots :
               PollResolve(i, ok, player))

\* the ramp controller with the volume commands it pre-empts
NextRampVolume ==
  \/ NextRamp
  \/ VolumeCommands

SpecRampVolume == Init /\ [][NextRampVolume]_vars

\* the control dispatcher with the poll loop and the lifecycle: every
\* handler runs, ramp sessions start and are cancelled, their timers are not
\* stepped
NextControl ==
  \/ Lifecycle
  \/ RampCommands
  \/ VolumeCommands
  \/ PlaybackCommands
  \/ Queries
  \/ PollLoop

SpecControl == Init /\ [][NextControl]_vars

\* the whole bridge through its first ramp: every handler, the poll loop and
\* the ramp timer, with rampVolume accepted once
NextBroadcast ==
  \/ Lifecycle
  \/ (sessions = <<>> /\ RampCommands)
  \/ VolumeCommands
  \/ PlaybackCommands
  \/ Queries
  \/ PollLoop
  \/ RampTimer

SpecBroadcast == Init /\ [][NextBroadcast]_vars

\* the control dispatcher and the poll loop over StateSnapshots
PollLoopWide ==
  \E i \in 1..Len(pollsInFlight), ok \in BOOLEAN, player \in StateSnapshots :
    PollResolve(i, ok, player)

TogglesWide ==
  \/ \E readOk \in BOOLEAN, player \in StateSnapshots, ok \in BOOLEAN :
       RestPlayToggle(readOk, player, ok)
  \/ \E readOk \in BOOLEAN, player \in StateSnapshots :
       SocketPlayToggle(readOk, player)

NextState ==
  \/ NextControl
  \/ PollLoopWide
  \/ TogglesWide

SpecState == Init /\ [][NextState]_vars

\* the state normalizer behind GET /state, over RawSnapshots
NextNormalizer ==
  \/ \E hasClient \in BOOLEAN : Start(hasClient)
  \/ \E ok \in BOOLEAN, player \in RawSnapshots : RestState(ok, player)

SpecNormalizer == Init /\ [][NextNormalizer]_vars

\* scenario C of the design: rampVolume(80, 10, 3), from whatever volume the
\* poll loop last broadcast (20 among them)
ScenarioCArgs == <<80, 10, 3>>

NextScenarioC ==
  \/ Lifecycle
  \/ RestRampVolume(ScenarioCArgs[1], ScenarioCArgs[2], ScenarioCArgs[3])
  \/ SocketRampVolume(ScenarioCArgs[1], ScenarioCArgs[2], ScenarioCArgs[3])
  \/ PollLoop
  \/ RampTimer

SpecScenarioC == Init /\ [][NextScenarioC]_vars

\* ---------------------------------------------------------- upstream client

\* the HTTP statuses upstream answers with
Statuses == {200, 204, 401, 500}

\* res.ok
ResOk(status) == status >= 200 /\ status < 300

TokenRefreshFailed == "Spotify token refresh failed"
\* `Spotify API ${res.status}`
ApiError(status) == IF status = 401 THEN "Spotify API 401" ELSE "Spotify API 500"

RECURSIVE _request(_, _, _)

\* a request that is repeated after a 401 with the token it had
_request_KeepsToken(accessToken, responses, retried) ==
  IF ~accessToken /\ ~ResOk(Head(responses))
  THEN [error |-> TokenRefreshFailed, fetches |-> <<"token">>]
  ELSE LET pre == IF accessToken THEN <<>> ELSE <<"token">>
           rest == IF accessToken THEN responses ELSE Tail(responses)
           status == Head(rest)
       IN IF ResOk(status)
          THEN [error |-> "", fetches |-> pre \o <<"api">>]
          ELSE IF status = 401 /\ ~retried
          THEN LET again == _request(TRUE, Tail(rest), TRUE)
               IN [again EXCEPT !.fetches = pre \o <<"api">> \o again.fetches]
          ELSE [error |-> ApiError(status), fetches |-> pre \o <<"api">>]

\* SpotifyWebAPI._request(method, path, options, retried) with the
\* _ensureToken() it awaits first: accessToken is whether a fresh token is
\* cached, responses are the answers of upstream to the fetches made, in
\* order.  The result is the fetches made ("token" to the accounts
\* endpoint, "api" to the Web API) and the message of the error thrown, ""
\* when the promise resolves.
_request(accessToken, responses, retried) ==
  IF ~accessToken /\ ~ResOk(Head(responses))
  THEN [error |-> TokenRefreshFailed, fetches |-> <<"token">>]
  ELSE LET pre == IF accessToken THEN <<>> ELSE <<"token">>
           rest == IF accessToken THEN responses ELSE Tail(responses)
           status == Head(rest)
       IN IF ResOk(status)
          THEN [error |-> "", fetches |-> pre \o <<"api">>]
          ELSE IF status = 401 /\ ~retried
          THEN LET again == _request(FALSE, Tail(rest), TRUE)
               IN [again EXCEPT !.fetches = pre \o <<"api">> \o again.fetches]
          ELSE [error |-> ApiError(status), fetches |-> pre \o <<"api">>]

\* one call of the client: reply carries the message its promise rejects with
ClientRequest(accessToken, responses) ==
  /\ phase = "running"
  /\ spotify
  /\ LET r == _request(accessToken, responses, FALSE)
     IN /\ act' = [Act("_request", "client", "") EXCEPT
                     !.ok = r.error = "",
                     !.input = [accessToken |-> accessToken,
                                responses |-> responses]]
        /\ calls' = [i \in 1..Len(r.fetches) |-> Call("fetch", r.fetches[i])]
        /\ reply' = Reply(0, r.error)
  /\ emitted' = <<>>
  /\ UNCHANGED <<ALLOW_CONTROL, phase, spotify, pollTimer, pollTimers,
                 lastStatePayload, rampingState, rampIntervalId,
                 lastNonZeroVolume, sessions, rampTimers, pollsInFlight>>

\* a setVolume that sends its argument as it got it, clamped
setVolume_NoRound(volumePercent) ==
  CallNumber("PUT /me/player/volume", Max(0, Min(100 * Tenths, volumePercent)))

\* setVolume(volumePercent), its argument in tenths: the request it sends,
\* volume_percent = Math.max(0, Math.min(100, Math.round(volumePercent)))
setVolume(volumePercent) ==
  CallNumber("PUT /me/player/volume",
             Max(0, Min(100 * Tenths, MathRound(volumePercent))))

\* the request the client sends for a setVolume call of a handler
VolumeRequest(call) == setVolume(call.arg * Tenths + call.frac)

NextClient ==
  \/ \E hasClient \in BOOLEAN : Start(hasClient)
  \/ \E accessToken \in BOOLEAN, responses \in [1..MaxFetches -> Statuses] :
       ClientRequest(accessToken, responses)

SpecClient == Init /\ [][NextClient]_vars

\* the lifecycle with the poll loop: start(), start() again, stop()
NextLifecycle ==
  \/ Lifecycle
  \/ Restart
  \/ PollLoop
  \/ SocketConnect

SpecLifecycle == Init /\ [][NextLifecycle]_vars

\* ramp parameters tried: targets, steps and times from 0 to 100
WideRampArgs == {0, 35, 80, 100} \X {0, 1, 10, 100} \X {0, 1, 3, 100}

\* the first ramp of a bridge, over WideRampArgs and the volumes of
\* StateSnapshots
NextRampParameters ==
  \/ \E hasClient \in BOOLEAN : Start(hasClient)
  \/ PollTick
  \/ PollLoopWide
  \/ \E r \in WideRampArgs : sessions = <<>> /\ RestRampVolume(r[1], r[2], r[3])
  \/ \E r \in WideRampArgs : sessions = <<>> /\ SocketRampVolume(r[1], r[2], r[3])

SpecRampParameters == Init /\ [][NextRampParameters]_vars

\* the poll loop with up to MaxOverlappingPolls reads awaiting upstream, which
\* answers them in any order
NextPollOrder ==
  \/ \E hasClient \in BOOLEAN : Start(hasClient)
  \/ PollTickWithin(MaxOverlappingPolls)
  \/ PollLoopWide

SpecPollOrder == Init /\ [][NextPollOrder]_vars

\* ramps up and down: to 0 in steps of 10, to 100 (from 120) in steps of 50
RampOrderArgs == {<<0, 10, 3>>, <<120, 50, 3>>}

\* the ramp controller over RampOrderArgs, with the poll loop and the
\* lifecycle
NextRampOrder ==
  \/ Lifecycle
  \/ \E r \in RampOrderArgs : RestRampVolume(r[1], r[2], r[3])
  \/ \E r \in RampOrderArgs : SocketRampVolume(r[1], r[2], r[3])
  \/ PollLoop
  \/ RampTimer

SpecRampOrder == Init /\ [][NextRampOrder]_vars

\* every handler that sets the volume and the ramp timer, over arguments
\* that are not numbers, negative, fractional or above 100, and over the
\* volumes 0, 20 and 95 that the poll loop retains
RawVolumeArgs == {NaN} \cup {Num(t) : t \in {-15, 4, 425, 996, 1500}}

NextVolume ==
  \/ Lifecycle
  \/ (sessions = <<>> /\ \E v \in RawVolumeArgs : RestRampVolumeRaw(v, 50, 3))
  \/ (sessions = <<>> /\ \E v \in RawVolumeArgs : SocketRampVolumeRaw(v, 50, 3))
  \/ RestVolumeUp \/ RestVolumeDown \/ RestMute \/ RestUnmute
  \/ SocketVolumeUp \/ SocketVolumeDown \/ SocketMute \/ SocketUnmute
  \/ \E v \in RawVolumeArgs : RestSetVolumeRaw(v)
  \/ \E v \in RawVolumeArgs : SocketSetVolumeRaw(v)
  \/ PollTick
  \/ PollLoopWide
  \/ RampTimer

SpecVolume == Init /\ [][NextVolume]_vars

\* ------------------------------------------------------------------ claims

Emits(name, value) ==
  \E i \in 1..Len(emitted) : emitted[i].event = name /\ emitted[i].value = value

IssuesCall(op) == \E i \in 1..Len(calls) : calls[i].op = op

\* a session that was started and has not completed, been superseded or
\* been stopped
RampActive == \E s \in SessionIds : sessions[s].status = "active"

VolumeVerbs == {"setVolume", "volumeUp", "volumeDown", "mute", "unmute"}

\* C1: at most one ramp interval is scheduled and not cleared, whatever
\* rampVolume commands, ticks, completions and stop() have run.
C1_AtMostOneRampTimer == Cardinality(rampTimers) <= 1

\* C2: a tick of a superseded session that resumes from its awaited
\* setVolume does not clear the timer handle, does not set the ramping flag
\* to false, emits nothing, forces no poll and signals no completion.
C2_SupersededTickHasNoEffect ==
  [][\A s \in SessionIds :
       (sessions[s].status = "superseded" /\ act'.name = "tickResume"
        /\ act'.session = s)
       => /\ rampIntervalId' = rampIntervalId
          /\ rampingState' = rampingState
          /\ emitted' = <<>>
          /\ pollsInFlight' = pollsInFlight
          /\ ~act'.completed]_vars

\* C3: when a tick signals completion, the last setVolume call that ramp
\* issued carried the clamped target.
C3_CompletionAfterTarget ==
  (act.name \in {"rampTick", "tickResume"} /\ act.completed)
  => act.lastSet = act.target

\* C4: a completed ramp has no live timer, and no ramp signals completion a
\* second time.
C4_CompletedRampIsSilent ==
  /\ \A s \in SessionIds : sessions[s].status = "completed" => s \notin rampTimers
  /\ ~act.again

\* C5: while a ramp session is active, a volume command issues no upstream
\* call, and over REST it is answered with the ramp-in-progress rejection.
C5_VolumeRejectedWhileRamping ==
  (RampActive /\ act.kind = "command" /\ act.name \in VolumeVerbs)
  => /\ calls = <<>>
     /\ act.transport = "rest" => reply = RampInProgress

\* C6: the ramping flag is true exactly when a ramp interval is scheduled
\* and not cleared.
C6_RampingIffTimerLive == rampingState <=> rampTimers # {}

\* C7: ramping_state true is emitted when a ramp starts, and ramping_state
\* false when a ramp completes and when a ramp is cancelled, by a new ramp
\* command or by stop().
C7_EveryTransitionBroadcast ==
  /\ (act.name = "rampVolume" /\ act.session # 0) => Emits("ramping_state", TRUE)
  /\ act.completed => Emits("ramping_state", FALSE)
  /\ act.cancelled # {} => Emits("ramping_state", FALSE)

\* C8: once stop() has run, no poll timer and no ramp timer is live, no
\* timer callback runs and the ramping flag is false.
C8_NoTimerAfterStop ==
  phase = "stopped"
  => /\ pollTimers = {}
     /\ rampTimers = {}
     /\ ~rampingState
     /\ act.kind # "timer"

\* C9: with control disabled no control command on either transport issues
\* an upstream call (toggle reads nothing, ramp starts no session), while
\* the poll interval stays scheduled, polls still broadcast and the state
\* query still reads upstream and answers.
C9_DisabledControlIssuesNothing ==
  ~ALLOW_CONTROL
  => /\ act.kind = "command" => (calls = <<>> /\ emitted = <<>>)
     /\ act.kind = "command" /\ act.transport = "rest" => reply = ControlDisabled
     /\ sessions = <<>> /\ rampTimers = {} /\ ~rampingState
     /\ (phase = "running" /\ spotify) => pollTimers # {}
     /\ (act.name = "state" /\ act.transport = "rest" /\ spotify)
        => (IssuesCall("getPlaybackState") /\ reply.status \in {200, 500})

\* a command ran and was rejected while control is disabled, after a poll
\* had broadcast a payload
C9_Witness ==
  /\ ~ALLOW_CONTROL /\ spotify
  /\ act.kind = "command" /\ act.name = "playToggle" /\ act.transport = "socket"
  /\ lastStatePayload # NULL

\* the all-empty payload of section 3: no track, Stopped, everything zeroed
EmptyPayload ==
  [playbackInfo |-> [name |-> "", artist |-> "", album |-> "", duration |-> 0,
                     playbackPosition |-> 0, trackId |-> "",
                     playerState |-> "Stopped", albumArtUrl |-> "",
                     deviceName |-> "", deviceIsActive |-> FALSE],
   state |-> [track_id |-> "", volume |-> 0, position |-> 0, state |-> "stopped",
              isRepeating |-> FALSE, isShuffling |-> FALSE]]

BroadcastsState ==
  \E i \in 1..Len(emitted) : emitted[i].event = "state_change" /\ emitted[i].to = "all"

BroadcastPayload ==
  emitted[CHOOSE i \in 1..Len(emitted) :
            emitted[i].event = "state_change" /\ emitted[i].to = "all"].value

\* two payloads differ in at least one field of playbackInfo or of state
Differs(a, b) ==
  \/ \E f \in DOMAIN a.playbackInfo : a.playbackInfo[f] # b.playbackInfo[f]
  \/ \E f \in DOMAIN a.state : a.state[f] # b.state[f]

\* C11: a successful poll broadcasts state_change iff nothing was broadcast
\* before or the normalized payload differs from the last broadcast in some
\* field of playbackInfo or state; the retained payload is always the last
\* broadcast, so no broadcast repeats the one before it.
C11_BroadcastIffChanged ==
  [][/\ (act'.name = "pollResolve" /\ act'.ok)
        => (BroadcastsState'
            <=> \/ lastStatePayload = NULL
                \/ Differs(lastStatePayload, buildStateChangePayload(act'.input)))
     /\ BroadcastsState'
        => /\ BroadcastPayload' # lastStatePayload
           /\ lastStatePayload' = BroadcastPayload'
           /\ act'.name = "pollResolve"
           /\ BroadcastPayload' = buildStateChangePayload(act'.input)
     /\ ~BroadcastsState' => lastStatePayload' = lastStatePayload]_vars

\* a successful poll read the payload that was broadcast last and stayed
\* silent
C11_Witness ==
  /\ act.name = "pollResolve" /\ act.ok
  /\ lastStatePayload # NULL
  /\ buildStateChangePayload(act.input) = lastStatePayload
  /\ emitted = <<>>

\* C12: a poll whose getPlaybackState call fails broadcasts nothing, leaves
\* the retained payload and lastNonZeroVolume as they were and leaves the
\* poll interval scheduled.
C12_FailedPollSkipsTick ==
  [][(act'.name = "pollResolve" /\ ~act'.ok)
     => /\ emitted' = <<>>
        /\ lastStatePayload' = lastStatePayload
        /\ lastNonZeroVolume' = lastNonZeroVolume
        /\ pollTimers' = pollTimers /\ pollTimer' = pollTimer
        /\ phase' = "running" => pollTimers' # {}
        /\ phase' = phase /\ spotify' = spotify]_vars

\* a poll failed after an earlier one had broadcast, and the interval is
\* still scheduled
C12_Witness ==
  /\ act.name = "pollResolve" /\ ~act.ok
  /\ lastStatePayload # NULL /\ lastNonZeroVolume # DefaultLastNonZeroVolume
  /\ pollTimers # {}

\* the events of the last step that went to the one socket it served
SentToSocket(name) ==
  {emitted[i].value : i \in {j \in 1..Len(emitted) :
                               emitted[j].event = name /\ emitted[j].to = "socket"}}

\* C13: an accepted toggle first reads getPlaybackState and then issues
\* exactly one action, pause if the read reports playing and play otherwise,
\* also when the read reports no player; when the read fails it issues
\* neither.  The retained payload plays no part.
C13_ToggleReadsThenActs ==
  (act.name = "playToggle" /\ act.kind = "command")
  => IF ~ALLOW_CONTROL \/ ~spotify THEN calls = <<>>
     ELSE /\ Len(calls) >= 1 /\ calls[1].op = "getPlaybackState"
          /\ IF act.input = Rejected THEN Len(calls) = 1
             ELSE /\ Len(calls) = 2
                  /\ calls[2].op = IF act.input # NULL /\ act.input.is_playing
                                   THEN "pause" ELSE "play"

\* the retained payload says playing, the fresh read says paused, and the
\* toggle issued play
C13_Witness ==
  /\ act.name = "playToggle" /\ act.transport = "rest"
  /\ lastStatePayload # NULL /\ lastStatePayload.state.state = "playing"
  /\ act.input # NULL /\ act.input # Rejected /\ ~act.input.is_playing
  /\ Len(calls) = 2 /\ calls[2].op = "play"

\* C14: the connection handler sends the new subscriber, without any
\* upstream call, the version, the control-enabled status, the ramping flag
\* as it is, and the retained payload (the last broadcast) when there is one.
C14_ConnectReplaysState ==
  act.name = "connection"
  => /\ calls = <<>>
     /\ SentToSocket("version") = {VERSION}
     /\ SentToSocket("control_status") = {ALLOW_CONTROL}
     /\ SentToSocket("ramping_state") = {rampingState}
     /\ SentToSocket("state_change")
        = IF lastStatePayload = NULL THEN {} ELSE {lastStatePayload}
     /\ \A i \in 1..Len(emitted) : emitted[i].to = "socket"

\* a subscriber connected during a ramp, after a broadcast
C14_Witness ==
  /\ act.name = "connection"
  /\ lastStatePayload # NULL /\ rampingState
  /\ Len(emitted) = 4

\* GET /state answered from a successful read
Normalized == act.name = "state" /\ act.transport = "rest" /\ spotify /\ act.ok

\* the read answered a player object without an item
ItemAbsent == act.input # NULL /\ act.input.item = NULL

\* the read answered a player object that is marked not playing
NotPlaying == act.input # NULL /\ ~act.input.is_playing

\* C15: a snapshot that is null or has no item normalizes to playerState
\* Stopped, trackId "", duration 0 and state stopped, whatever its
\* is_playing, progress and device fields.
C15_NoItemIsStopped ==
  (Normalized /\ (act.input = NULL \/ ItemAbsent))
  => /\ reply.json.playbackInfo.playerState = "Stopped"
     /\ reply.json.playbackInfo.trackId = ""
     /\ reply.json.playbackInfo.duration = 0
     /\ reply.json.state.state = "stopped"
     /\ reply.json.state.track_id = ""

\* no item, yet marked playing with progress and a device
C15_Witness ==
  /\ Normalized /\ ItemAbsent
  /\ act.input.is_playing /\ act.input.progress_ms > 0 /\ act.input.device # NULL

\* C16 as stated: every snapshot with is_playing false and duration_ms > 0 or
\* progress_ms > 0 normalizes to Paused, and Paused occurs only for
\* not-playing snapshots with duration > 0 or position > 0.
C16_Original ==
  Normalized
  => /\ (NotPlaying /\ \/ act.input.progress_ms > 0
                       \/ act.input.item # NULL /\ act.input.item.duration_ms > 0)
        => reply.json.playbackInfo.playerState = "Paused"
     /\ reply.json.playbackInfo.playerState = "Paused"
        => /\ NotPlaying
           /\ \/ reply.json.playbackInfo.duration > 0
              \/ reply.json.playbackInfo.playbackPosition > 0

\* C16 amended: every snapshot that has an item, is_playing false and
\* duration_ms > 0 or progress_ms > 0 normalizes to Paused, and Paused occurs
\* only for not-playing snapshots with duration > 0 or position > 0.
C16_PausedIsKnownItem ==
  Normalized
  => /\ (NotPlaying /\ act.input.item # NULL
         /\ (act.input.progress_ms > 0 \/ act.input.item.duration_ms > 0))
        => reply.json.playbackInfo.playerState = "Paused"
     /\ reply.json.playbackInfo.playerState = "Paused"
        => /\ NotPlaying
           /\ \/ reply.json.playbackInfo.duration > 0
              \/ reply.json.playbackInfo.playbackPosition > 0

\* an item of unknown duration, not playing, part-way through: Paused
C16_Witness ==
  /\ Normalized /\ NotPlaying /\ act.input.item # NULL
  /\ act.input.item.duration_ms = 0 /\ act.input.progress_ms > 0
  /\ reply.json.playbackInfo.playerState = "Paused"

\* C17: a snapshot without an item normalizes to the payload of a null
\* snapshot, state included, even when it carries a device volume, a repeat
\* mode or a shuffle flag.
C17_NoItemIsEmptyPayload ==
  (Normalized /\ ItemAbsent) => reply.json = EmptyPayload

\* the device volume of a player object as upstream reported it
ReportedVolume(player) ==
  IF player # NULL /\ player.device # NULL THEN player.device.volume_percent ELSE 0

\* C18: lastNonZeroVolume starts at 50, takes the volume of each successful
\* poll that reports a volume > 0 and changes in no other step, so it is
\* never 0; an accepted unmute issues setVolume with exactly that value.
C18_LastNonZeroVolume ==
  /\ lastNonZeroVolume = 50
  /\ [][/\ lastNonZeroVolume' # 0
        /\ lastNonZeroVolume' =
             IF act'.name = "pollResolve" /\ act'.ok /\ ReportedVolume(act'.input) > 0
             THEN ReportedVolume(act'.input)
             ELSE lastNonZeroVolume
        /\ (act'.name = "unmute" /\ calls' # <<>>)
           => calls' = <<Call("setVolume", lastNonZeroVolume)>>]_vars

\* an unmute was accepted while the last broadcast volume is 0 and a poll
\* had seen 95 before
C18_Witness ==
  /\ act.name = "unmute" /\ calls = <<Call("setVolume", 95)>>
  /\ lastStatePayload # NULL /\ lastStatePayload.state.volume = 0

\* the volume and position of the last broadcast, with the defaults the
\* handlers use when nothing was broadcast
BroadcastVolume == IF lastStatePayload = NULL THEN 50 ELSE lastStatePayload.state.volume
BroadcastPosition == IF lastStatePayload = NULL THEN 0 ELSE lastStatePayload.state.position

\* C19: an accepted volume-up issues the single call setVolume(min(100, v+10)),
\* volume-down setVolume(max(0, v-10)) and relative seek seek(max(0, p+delta)),
\* v and p being the volume and position of the last broadcast; none reads
\* upstream.
C19_RelativeToLastBroadcast ==
  /\ (act.name = "volumeUp" /\ calls # <<>>)
     => calls = <<Call("setVolume", IF BroadcastVolume + 10 > 100 THEN 100
                                    ELSE BroadcastVolume + 10)>>
  /\ (act.name = "volumeDown" /\ calls # <<>>)
     => calls = <<Call("setVolume", IF BroadcastVolume - 10 < 0 THEN 0
                                    ELSE BroadcastVolume - 10)>>
  /\ (act.name = "movePlayerPosition" /\ calls # <<>>)
     => calls = <<Call("seek", IF BroadcastPosition + 1000 * act.input < 0 THEN 0
                               ELSE BroadcastPosition + 1000 * act.input)>>

\* a volume-up from a broadcast volume of 95 was clamped to 100
C19_Witness ==
  /\ act.name = "volumeUp" /\ calls = <<Call("setVolume", 100)>>
  /\ lastStatePayload # NULL /\ lastStatePayload.state.volume = 95
  /\ lastNonZeroVolume = 95

\* a step of a control command handler or of a ramp tick
CommandOrRampTick ==
  act'.kind = "command" \/ act'.name \in {"rampTick", "tickResume"}

\* C20 as stated: no control command handler and no ramp tick broadcasts a
\* state_change or changes lastStatePayload, and lastStatePayload changes
\* only in a poll begun by an interval tick, by start or by a ramp completion.
C20_Original ==
  [][/\ CommandOrRampTick
        => (~BroadcastsState' /\ lastStatePayload' = lastStatePayload)
     /\ (lastStatePayload' # lastStatePayload \/ BroadcastsState')
        => /\ act'.name = "pollResolve"
           /\ act'.origin \in {"interval", "start", "ramp"}]_vars

\* C20: no control command handler and no ramp tick broadcasts a state_change
\* or changes lastStatePayload; lastStatePayload changes, and a broadcast is
\* made, only in a poll, begun by an interval tick, by start, by a ramp
\* completion or by a socket 'state' query that found no retained payload.
C20_PayloadChangesOnlyInPoll ==
  [][/\ CommandOrRampTick
        => (~BroadcastsState' /\ lastStatePayload' = lastStatePayload)
     /\ (lastStatePayload' # lastStatePayload \/ BroadcastsState')
        => /\ act'.name = "pollResolve"
           /\ act'.origin \in {"interval", "start", "ramp", "state"}]_vars

\* the poll that a socket 'state' query began has broadcast a payload
C20_Witness ==
  /\ act.name = "pollResolve" /\ act.origin = "state"
  /\ BroadcastsState /\ lastStatePayload = BroadcastPayload

\* a session of scenario C: started at volume 20 with target 80
IsScenarioC(s) ==
  s \in SessionIds /\ sessions[s].startVolume = 20 /\ sessions[s].target = 80

\* C21: a ramp started at broadcast volume 20 with target 80, changePercent 10
\* and rampTimeSeconds 3 has 6 steps and a 500 ms delay, starts with
\* ramping_state true, and completes once, after setVolume(80), with
\* ramping_state false and one forced poll.
C21_ScenarioC ==
  /\ \A s \in SessionIds :
       IsScenarioC(s) => sessions[s].steps = 6 /\ sessions[s].stepDelayMs = 500
  /\ (act.name = "rampVolume" /\ IsScenarioC(act.session))
     => Emits("ramping_state", TRUE)
  /\ (act.name \in {"rampTick", "tickResume"} /\ act.completed
      /\ IsScenarioC(act.session))
     => /\ act.lastSet = 80
        /\ ~act.again
        /\ emitted = <<Event("ramping_state", FALSE, "all")>>
        /\ calls = <<Call("getPlaybackState", NULL)>>

\* C22: a pause that directly follows a pause issues the same upstream calls
\* as the first, one pause call when control is enabled and the client
\* exists, and, over the same transport and with the same upstream answer,
\* gets the same reply.
C22_PauseTwice ==
  [][(act.name = "pause" /\ act'.name = "pause")
     => /\ act'.repeated
        /\ calls' = calls
        /\ (ALLOW_CONTROL /\ spotify) => calls' = <<Call("pause", NULL)>>
        /\ (act'.transport = act.transport /\ act'.ok = act.ok)
           => reply' = reply]_vars

\* a second pause in direct succession was passed upstream and answered OK
C22_Witness ==
  /\ act.name = "pause" /\ act.repeated /\ act.transport = "rest"
  /\ calls = <<Call("pause", NULL)>> /\ reply = Reply(200, "OK")

\* the response to the first Web API fetch of the request that ran, when one
\* was made
FirstApi == IF act.input.accessToken THEN 1 ELSE 2

AnsweredUnauthorized ==
  /\ act.name = "_request"
  /\ act.input.accessToken \/ ResOk(act.input.responses[1])
  /\ act.input.responses[FirstApi] = 401

Fetches(endpoint) == Cardinality({i \in 1..Len(calls) : calls[i].arg = endpoint})

\* C23: a request answered 401 refreshes the credential, also when a token
\* was cached, and then repeats the request once; the caller gets the outcome
\* of the repeated request, an error included, and no request is made a
\* third time.  A request not answered 401 is made once.
C23_RetryOnceAfterRefresh ==
  act.name = "_request"
  => /\ Fetches("api") <= 2
     /\ Fetches("api") = 2 => AnsweredUnauthorized
     /\ AnsweredUnauthorized
        => LET refresh == act.input.responses[FirstApi + 1]
               retry == act.input.responses[FirstApi + 2]
           IN /\ SubSeq(calls, FirstApi, FirstApi + 1)
                   = <<Call("fetch", "api"), Call("fetch", "token")>>
              /\ ResOk(refresh)
                 => /\ Len(calls) = FirstApi + 2
                    /\ calls[FirstApi + 2] = Call("fetch", "api")
                    /\ act.ok <=> ResOk(retry)
                    /\ ~act.ok => reply.body = ApiError(retry)
              /\ ~ResOk(refresh)
                 => /\ Len(calls) = FirstApi + 1
                    /\ ~act.ok /\ reply.body = TokenRefreshFailed

\* a request with a cached token was answered 401, and 401 again after the
\* refresh: the error reached the caller after two attempts
C23_Witness ==
  /\ AnsweredUnauthorized /\ act.input.accessToken
  /\ calls = <<Call("fetch", "api"), Call("fetch", "token"), Call("fetch", "api")>>
  /\ ~act.ok /\ reply.body = "Spotify API 401"

\* C24: stop() clears the poll timer and changes neither lastStatePayload nor
\* lastNonZeroVolume, and a subscriber who connects after it is sent the
\* retained payload.
C24_StopKeepsPayload ==
  /\ [][act'.name = "stop"
        => /\ pollTimer' = 0 /\ pollTimers' = {}
           /\ lastStatePayload' = lastStatePayload
           /\ lastNonZeroVolume' = lastNonZeroVolume]_vars
  /\ []((phase = "stopped" /\ act.name = "connection" /\ lastStatePayload # NULL)
        => Emits("state_change", lastStatePayload))

\* a subscriber connected after stop() and was sent the payload broadcast
\* before it
C24_Witness ==
  /\ phase = "stopped" /\ act.name = "connection"
  /\ pollTimers = {} /\ pollsInFlight = <<>>
  /\ lastStatePayload # NULL /\ lastNonZeroVolume = 95
  /\ Emits("state_change", lastStatePayload)

\* C25: start() with a client issues a poll at once and leaves exactly the
\* interval it scheduled live, however often it is called.
C25_EagerPollOneTimer ==
  /\ [][(act'.name = "start" /\ spotify')
        => /\ calls' = <<Call("getPlaybackState", NULL)>>
           /\ pollsInFlight' = Append(pollsInFlight, Poll("start"))
           /\ pollTimers' = {pollTimer'} /\ pollTimer' # 0]_vars
  /\ [](Cardinality(pollTimers) <= 1)

\* start() was called again while its first interval was live
C25_Witness ==
  /\ act.name = "start" /\ act.again /\ spotify
  /\ pollTimers = {pollTimer} /\ pollTimer # 0
  /\ pollsInFlight = <<Poll("start")>> /\ lastStatePayload # NULL

\* C26: a ramp accepted with targetVolume, changePercent and rampTimeSeconds
\* in 0..100 has startVolume = the last broadcast volume (0 when there is
\* none), target = the clamped targetVolume, totalSteps
\* = max(1, ceil(|target - startVolume| / max(1, changePercent))) and
\* stepDelayMs = max(100, floor(rampTimeSeconds * 1000 / totalSteps)).
C26_DerivedParameters ==
  (act.name = "rampVolume" /\ act.session # 0)
  => LET sess == sessions[act.session]
         startVolume == IF lastStatePayload = NULL THEN 0
                        ELSE lastStatePayload.state.volume
         target == IF act.input[1] > 100 THEN 100
                   ELSE IF act.input[1] < 0 THEN 0 ELSE act.input[1]
         stepSize == IF act.input[2] < 1 THEN 1 ELSE act.input[2]
         distance == IF target < startVolume THEN startVolume - target
                     ELSE target - startVolume
         ceiling == (distance + stepSize - 1) \div stepSize
         totalSteps == IF ceiling < 1 THEN 1 ELSE ceiling
         delay == (act.input[3] * 1000) \div totalSteps
     IN /\ sess.startVolume = startVolume
        /\ sess.target = target
        /\ sess.steps = totalSteps
        /\ sess.stepDelayMs = IF delay < 100 THEN 100 ELSE delay

\* session s is running: started, not completed, superseded or stopped
Active(s) == s \in SessionIds /\ sessions[s].status = "active"

\* C27: every ramp session that is started is at last completed, superseded
\* or stopped; the tick that completes it clears the ramping flag and forces
\* a poll; and a tick whose setVolume was rejected advances the step counter
\* as one whose setVolume resolved.
C27_RampCompletes ==
  /\ \A s \in 1..MaxRamps : Active(s) ~> ~Active(s)
  /\ [][\A s \in 1..MaxRamps :
          (Active(s) /\ act'.name = "tickResume" /\ act'.session = s)
          => IF act'.completed
             THEN /\ sessions'[s].status = "completed"
                  /\ ~rampingState'
                  /\ calls' = <<Call("getPlaybackState", NULL)>>
             ELSE sessions'[s].step = sessions[s].step + 1]_vars

\* a ramp completed in a tick whose setVolume call was rejected
C27_Witness ==
  /\ act.name = "tickResume" /\ act.completed /\ ~act.ok /\ ~act.again
  /\ sessions[act.session].status = "completed"
  /\ ~rampingState /\ pollsInFlight # <<>>

\* C28: GET /state with a client reads upstream once and answers with the
\* normalization of what it read, or with status 500 when the read was
\* rejected; it emits nothing and changes neither lastStatePayload nor
\* lastNonZeroVolume, with control enabled or disabled.
C28_StateQueryIsFresh ==
  [][(act'.name = "state" /\ act'.transport = "rest" /\ spotify)
     => /\ calls' = <<Call("getPlaybackState", NULL)>>
        /\ emitted' = <<>>
        /\ lastStatePayload' = lastStatePayload
        /\ lastNonZeroVolume' = lastNonZeroVolume
        /\ reply' = IF act'.ok
                    THEN JsonReply(200, buildStateChangePayload(act'.input))
                    ELSE JsonReply(500, [error |-> "upstream error"])]_vars

\* with control disabled, GET /state returned a payload other than the
\* retained one
C28_Witness ==
  /\ act.name = "state" /\ act.transport = "rest" /\ act.ok
  /\ ~ALLOW_CONTROL /\ spotify
  /\ lastStatePayload # NULL /\ reply.status = 200
  /\ reply.json # lastStatePayload

\* C29: a poll whose getPlaybackState call was made before that of a poll
\* which has broadcast its payload does not broadcast its own payload (a
\* payload is made the retained one only by broadcasting it).
C29_BroadcastInReadOrder ==
  (act.name = "pollResolve" /\ act.overtaken) => ~BroadcastsState

\* v lies between a and b, whichever is larger
Between(v, a, b) == (a <= v /\ v <= b) \/ (b <= v /\ v <= a)

\* C30: the first setVolume of a ramp session carries its startVolume; each
\* later one carries a value between the one before it and the target, so the
\* values move from startVolume toward the target and never leave that
\* range; the step counter never exceeds the step count; and no step, a poll
\* that changes the broadcast volume included, changes the startVolume,
\* target or step count of a session whose interval is live.
C30_MonotoneRamp ==
  /\ [][/\ (act'.name = "rampVolume" /\ act'.session # 0)
           => calls' = <<Call("setVolume", sessions'[act'.session].startVolume)>>
        /\ (act'.name = "rampTick" /\ calls' # <<>> /\ calls'[1].op = "setVolume")
           => LET s == act'.session
              IN /\ Len(calls') = 1
                 /\ Between(calls'[1].arg, sessions[s].lastSet, sessions[s].target)
                 /\ Between(calls'[1].arg, sessions[s].startVolume,
                            sessions[s].target)
        /\ \A s \in SessionIds :
             s \in rampTimers'
             => /\ sessions'[s].startVolume = sessions[s].startVolume
                /\ sessions'[s].target = sessions[s].target
                /\ sessions'[s].steps = sessions[s].steps]_vars
  /\ [](\A s \in SessionIds : sessions[s].step <= sessions[s].steps)

\* a ramp down from 20 issued setVolume(10) after a poll had changed the
\* broadcast volume to 0, with the tick before it still suspended
C30_Witness ==
  /\ act.name = "rampTick" /\ calls = <<Call("setVolume", 10)>>
  /\ sessions[act.session].startVolume = 20 /\ sessions[act.session].target = 0
  /\ sessions[act.session].pending = 2
  /\ lastStatePayload # NULL /\ lastStatePayload.state.volume = 0

\* C31: every setVolume request sent upstream, from the absolute, up, down,
\* mute and unmute handlers of both transports and from a ramp tick, for any
\* command argument, carries an integer volume in 0..100, the volumes that
\* upstream reported being integers in 0..100.
C31_VolumeRequestInRange ==
  \A i \in 1..Len(calls) :
    calls[i].op = "setVolume"
      => /\ VolumeRequest(calls[i]).frac = 0
         /\ VolumeRequest(calls[i]).arg \in 0..100

\* the socket handler passed 42.5 on and the client asked upstream for 43
C31_Witness ==
  /\ act.name = "setVolume" /\ act.transport = "socket"
  /\ act.input = Num(425)
  /\ calls = <<CallNumber("setVolume", 425)>>
  /\ calls[1].frac = 5
  /\ VolumeRequest(calls[1]).arg = 43

=============================================================================
